---- MODULE Spec2Model ----
(***************************************************************************)
(* A model of pydatatask's PodManager (pod_manager.py) and Session         *)
(* (session.py).                                                           *)
(*                                                                         *)
(* PodManager methods are coroutines run by one asyncio event loop: a      *)
(* coroutine runs without interruption from one backend call (an await    *)
(* that really suspends: list_namespaced_pod, create_namespaced_pod,      *)
(* delete_namespaced_pod) to the next, and any other coroutine may run    *)
(* while it is suspended.  Each action below is one such uninterrupted    *)
(* segment of a call.                                                      *)
(***************************************************************************)
EXTENDS Integers, Sequences, FiniteSets, TLC

\* ---------------------------------------------------------------- bounds
NumProcs == 2           \* concurrent PodManager calls (asyncio tasks)
MaxContainers == 2      \* containers per pod manifest
MaxDeficit == 2         \* no further delete starts once usage is this many cpus below zero
MaxEphemerals == 2      \* ephemeral managers registered with a Session
MaxYields == 2          \* values an ephemeral manager yields before it ends
MaxOpens == 2           \* Session.open() calls that return normally
MaxArgs == 3            \* keys of the "args" mapping a picker is given
MaxPort == 99           \* largest number a string of digits is read as

Procs == 1..NumProcs
Jobs == {"j1"}
Tasks == {"t1", "t2"}

\* ------------------------------------------------------------ quantities
\* Resource quantities are Kubernetes quantity strings.  parse_quantity
\* turns one into a number; the model keeps numbers in thousandths so that
\* the milli suffix stays an integer.
parse_quantity(q) ==
    CASE q = "500m" -> 500
      [] q = "1"    -> 1000
      [] q = "2"    -> 2000
      [] q = "1Ki"  -> 1024 * 1000
      [] q = "2Ki"  -> 2 * 1024 * 1000

\* PodManager.__init__, lines 23-24: the quotas this manager is built with.
cpu_quota == parse_quantity("2")
mem_quota == parse_quantity("1Ki")

\* A container's resources.requests, and the manifests the callers submit.
Containers == { [cpu |-> "1", memory |-> "1Ki"] }
Manifests == UNION { [1..n -> Containers] : n \in 1..MaxContainers }

\* The loop of launch (lines 66-70) and of delete (lines 111-113): the sum of
\* the parsed requests over the containers, in order.
RECURSIVE SumRequests(_, _)
SumRequests(containers, resource) ==
    IF containers = <<>> THEN 0
    ELSE parse_quantity(Head(containers)[resource])
         + SumRequests(Tail(containers), resource)

\* ------------------------------------------------------------- the state
\* An unset cache (Python None) is the empty tuple, a cached number v is <<v>>.
None == <<>>
Some(v) == <<v>>
Val(u) == u[1]

\* Pod names are '<app>-<job>-<task>'; app is fixed, so a name is <<job, task>>.
PodNames == Jobs \X Tasks
PodName(job, task) == <<job, task>>
NoPod == <<>>

NoCall == [op |-> "none", job |-> "", task |-> "", containers |-> <<>>]
NoPre == [clean |-> FALSE]
NoRet == [proc |-> 0]
NoLast == [op |-> "none"]

VARIABLES
    cpu_usage,      \* PodManager._cpu_usage: None or Some(number)
    mem_usage,      \* PodManager._mem_usage
    warned,         \* PodManager.warned: set of task names
    log,            \* the "Cannot launch" records written through l.info
    pods,           \* the backend: pod name -> its containers, or NoPod
    pc,             \* the backend call each call is suspended at
    call,           \* each call's operation and arguments
    listed,         \* history: the outcome of the list call made by this call
    pre,            \* history: the state at the call's entry, while no other
                    \*   call has run a segment since
    ret,            \* history: the call that the latest segment ended, with
                    \*   what it returned or raised
    ephemeral_defs, \* Session._ephemeral_defs: the generators, in insertion order
    ephemerals,     \* Session.ephemerals: name -> live resource
    spc,            \* where Session.open / Session.close is suspended
    sresult,        \* how the last open / close ended
    acc,            \* how the last accessor call ended
    warnings,       \* "ephemeral has more than one yield" lines printed
    opens,          \* history: open() calls that have returned
    picked          \* the last call of a picker: its argument and how it ended

pvars == <<cpu_usage, mem_usage, warned, log, pods, pc, call, listed, pre, ret>>
svars == <<ephemeral_defs, ephemerals, spc, sresult, acc, warnings, opens>>
dvars == <<picked>>
vars == <<cpu_usage, mem_usage, warned, log, pods, pc, call, listed, pre, ret,
          ephemeral_defs, ephemerals, spc, sresult, acc, warnings, opens, picked>>

\* ------------------------------------------------------------ PodManager
LogKinds == {"cpu limit", "memory limit"}
ListOutcomes == {"ok", "Forbidden", "error"}
BackendOutcomes == {"ok", "error"}

\* The pods the label selector 'app=<app>' returns.
Items == { n \in PodNames : pods[n] # NoPod }

\* _load_usage with the test of the reason left out: every ApiException is
\* raised again.
LoadUsage_ReraisesForbidden(outcome) ==
    LET exc == CASE outcome = "ok" ->
                      IF Items # {} /\ (cpu_usage = None \/ mem_usage = None)
                      THEN "TypeError" ELSE "none"
                 [] OTHER -> "ApiException"
    IN [cpu |-> Some(0), mem |-> Some(0), exc |-> exc]

\* _load_usage, run when list_namespaced_pod has answered with `outcome`.
\* The locals cpu_usage and mem_usage stay 0: the loop adds to the attributes
\* self._cpu_usage and self._mem_usage, which raises TypeError when they are
\* None and there is a container to add.  An ApiException is swallowed only
\* when its reason is Forbidden.  The finally clause stores the locals.
LoadUsage(outcome) ==
    LET local_cpu == 0
        local_mem == 0
        exc == CASE outcome = "ok" ->
                      IF Items # {} /\ (cpu_usage = None \/ mem_usage = None)
                      THEN "TypeError" ELSE "none"
                 [] outcome = "Forbidden" -> "none"
                 [] OTHER -> "ApiException"
    IN [cpu |-> Some(local_cpu), mem |-> Some(local_mem), exc |-> exc]

\* History: the admitting launch a return record stands for, if it is one that
\* ran with no other call interleaved.
AsLast(r) ==
    IF r # NoRet /\ r.pre.clean /\ r.call.op = "launch" /\ r.result = "True"
    THEN [op |-> "launch", job |-> r.call.job, task |-> r.call.task,
          containers |-> r.call.containers, cpu0 |-> r.pre.cpu, mem0 |-> r.pre.mem]
    ELSE NoLast

\* History: the entry record of call p, which starts now.
Entry == [clean |-> TRUE, cpu |-> cpu_usage, mem |-> mem_usage, pods |-> pods,
          prev |-> AsLast(ret)]

\* Call p, with arguments c, entry record e and list outcome l, returns or
\* raises r: its task is over.
Return(p, c, e, l, r) ==
    /\ pc' = [pc EXCEPT ![p] = "idle"]
    /\ call' = [call EXCEPT ![p] = NoCall]
    /\ listed' = [listed EXCEPT ![p] = "none"]
    /\ pre' = [q \in Procs |-> NoPre]
    /\ ret' = [proc |-> p, call |-> c, pre |-> e, listed |-> l, result |-> r]

\* Call p, with arguments c, entry record e and list outcome l, suspends at a
\* backend call; every other call has been interleaved with.
Suspend(p, c, e, l, where) ==
    /\ pc' = [pc EXCEPT ![p] = where]
    /\ call' = [call EXCEPT ![p] = c]
    /\ listed' = [listed EXCEPT ![p] = l]
    /\ pre' = [q \in Procs |-> IF q = p THEN e ELSE NoPre]
    /\ ret' = NoRet

\* launch, lines 73-76 and 78-81: warn once per task, return False.
Reject(p, c, e, l, kind) ==
    /\ IF c.task \notin warned
       THEN /\ warned' = warned \cup {c.task}
            /\ log' = [log EXCEPT ![<<c.task, kind>>] = @ + 1]
       ELSE UNCHANGED <<warned, log>>
    /\ Return(p, c, e, l, "False")

\* The memory check with >= for >: a request that fits exactly is rejected.
CheckMem_RejectsExactFit(p, c, e, l, mem) ==
    LET mem_request == SumRequests(c.containers, "memory") IN
    IF mem_request + Val(mem) >= mem_quota
    THEN Reject(p, c, e, l, "memory limit")
    ELSE /\ Suspend(p, c, e, l, "create")
         /\ UNCHANGED <<warned, log>>

\* launch, lines 77-94, given the cached memory usage: the memory check, then
\* the call of create_namespaced_pod.
CheckMem(p, c, e, l, mem) ==
    LET mem_request == SumRequests(c.containers, "memory") IN
    IF mem_request + Val(mem) > mem_quota
    THEN Reject(p, c, e, l, "memory limit")
    ELSE /\ Suspend(p, c, e, l, "create")
         /\ UNCHANGED <<warned, log>>

\* launch, lines 72-94, given the cached usage: the cpu check, the read of the
\* memory usage (a load when it is unset), the memory check.
CheckCpu(p, c, e, l, cpu, mem) ==
    LET cpu_request == SumRequests(c.containers, "cpu") IN
    IF cpu_request + Val(cpu) > cpu_quota
    THEN Reject(p, c, e, l, "cpu limit")
    ELSE IF mem = None
         THEN /\ Suspend(p, c, e, l, "mem_load")
              /\ UNCHANGED <<warned, log>>
         ELSE CheckMem(p, c, e, l, mem)

\* launch(job, task, manifest) up to its first backend call.
LaunchStart(p, job, task, manifest) ==
    /\ pc[p] = "idle"
    /\ LET c == [op |-> "launch", job |-> job, task |-> task, containers |-> manifest] IN
       IF cpu_usage = None
       THEN /\ Suspend(p, c, Entry, "none", "cpu_load")
            /\ UNCHANGED <<warned, log>>
       ELSE CheckCpu(p, c, Entry, "none", cpu_usage, mem_usage)
    /\ UNCHANGED <<cpu_usage, mem_usage, pods>>

\* delete(pod) up to its first backend call.  The pod object is one a query
\* returned: the pod of that name as it is, or a pod that is gone by now.
DeleteStart(p, name, containers) ==
    /\ pc[p] = "idle"
    /\ IF pods[name] = NoPod THEN TRUE ELSE pods[name] = containers
    /\ IF cpu_usage = None THEN TRUE
       ELSE Val(cpu_usage) + MaxDeficit * parse_quantity("1") > 0
    /\ LET c == [op |-> "delete", job |-> name[1], task |-> name[2],
                 containers |-> containers]
       IN Suspend(p, c, Entry, "none", IF cpu_usage = None THEN "del_load" ELSE "delete")
    /\ UNCHANGED <<cpu_usage, mem_usage, warned, log, pods>>

\* list_namespaced_pod answers: the rest of _load_usage, then the caller goes
\* on to its next backend call or to its return.
LoadReturn(p, outcome) ==
    /\ pc[p] \in {"cpu_load", "mem_load", "del_load"}
    /\ LET lu == LoadUsage(outcome) IN
       /\ cpu_usage' = lu.cpu
       /\ mem_usage' = lu.mem
       /\ IF lu.exc # "none"
          THEN Return(p, call[p], pre[p], outcome, lu.exc) /\ UNCHANGED <<warned, log>>
          ELSE CASE pc[p] = "cpu_load" ->
                        CheckCpu(p, call[p], pre[p], outcome, lu.cpu, lu.mem)
                 [] pc[p] = "mem_load" ->
                        CheckMem(p, call[p], pre[p], outcome, lu.mem)
                 [] pc[p] = "del_load" ->
                        /\ Suspend(p, call[p], pre[p], outcome, "delete")
                        /\ UNCHANGED <<warned, log>>
    /\ UNCHANGED pods

\* Lines 94-97 with the cpu request added to the memory usage too.
CreateReturn_AddsCpuTwice(p, outcome) ==
    /\ pc[p] = "create"
    /\ LET name == PodName(call[p].job, call[p].task)
           cpu_request == SumRequests(call[p].containers, "cpu")
       IN IF outcome = "ok" /\ pods[name] = NoPod
          THEN /\ pods' = [pods EXCEPT ![name] = call[p].containers]
               /\ cpu_usage' = Some(Val(cpu_usage) + cpu_request)
               /\ mem_usage' = Some(Val(mem_usage) + cpu_request)
               /\ Return(p, call[p], pre[p], listed[p], "True")
          ELSE /\ Return(p, call[p], pre[p], listed[p],
                         IF outcome = "ok" THEN "ApiException:Conflict" ELSE "ApiException")
               /\ UNCHANGED <<pods, cpu_usage, mem_usage>>
    /\ UNCHANGED <<warned, log>>

\* create_namespaced_pod answers (a name that exists is a conflict): lines 94-97.
CreateReturn(p, outcome) ==
    /\ pc[p] = "create"
    /\ LET name == PodName(call[p].job, call[p].task)
           cpu_request == SumRequests(call[p].containers, "cpu")
           mem_request == SumRequests(call[p].containers, "memory")
       IN IF outcome = "ok" /\ pods[name] = NoPod
          THEN /\ pods' = [pods EXCEPT ![name] = call[p].containers]
               /\ cpu_usage' = Some(Val(cpu_usage) + cpu_request)
               /\ mem_usage' = Some(Val(mem_usage) + mem_request)
               /\ Return(p, call[p], pre[p], listed[p], "True")
          ELSE /\ Return(p, call[p], pre[p], listed[p],
                         IF outcome = "ok" THEN "ApiException:Conflict" ELSE "ApiException")
               /\ UNCHANGED <<pods, cpu_usage, mem_usage>>
    /\ UNCHANGED <<warned, log>>

\* Lines 110-113 with the release of the memory left out.
DeleteReturn_KeepsMemory(p, outcome) ==
    /\ pc[p] = "delete"
    /\ LET name == PodName(call[p].job, call[p].task) IN
       IF outcome = "ok" /\ pods[name] # NoPod
       THEN /\ pods' = [pods EXCEPT ![name] = NoPod]
            /\ cpu_usage' = Some(Val(cpu_usage) - SumRequests(call[p].containers, "cpu"))
            /\ mem_usage' = mem_usage
            /\ Return(p, call[p], pre[p], listed[p], "None")
       ELSE /\ Return(p, call[p], pre[p], listed[p],
                      IF outcome = "ok" THEN "ApiException:NotFound" ELSE "ApiException")
            /\ UNCHANGED <<pods, cpu_usage, mem_usage>>
    /\ UNCHANGED <<warned, log>>

\* delete_namespaced_pod answers (a name that is gone is 404 Not Found):
\* lines 110-113.
DeleteReturn(p, outcome) ==
    /\ pc[p] = "delete"
    /\ LET name == PodName(call[p].job, call[p].task) IN
       IF outcome = "ok" /\ pods[name] # NoPod
       THEN /\ pods' = [pods EXCEPT ![name] = NoPod]
            /\ cpu_usage' = Some(Val(cpu_usage) - SumRequests(call[p].containers, "cpu"))
            /\ mem_usage' = Some(Val(mem_usage) - SumRequests(call[p].containers, "memory"))
            /\ Return(p, call[p], pre[p], listed[p], "None")
       ELSE /\ Return(p, call[p], pre[p], listed[p],
                      IF outcome = "ok" THEN "ApiException:NotFound" ELSE "ApiException")
            /\ UNCHANGED <<pods, cpu_usage, mem_usage>>
    /\ UNCHANGED <<warned, log>>

\* --------------------------------------------------------------- Session
EphemeralNames == 1..MaxEphemerals
SIdle == [op |-> "idle"]
NoResult == [op |-> "none"]
NoAccess == [name |-> 0]

\* Session.__init__, lines 47-48.
SessionInit ==
    /\ ephemeral_defs = <<>>
    /\ ephemerals = <<>>
    /\ spc = SIdle
    /\ sresult = NoResult
    /\ acc = NoAccess
    /\ warnings = 0
    /\ opens = 0

\* No picker has been called.
NoPick == [picker |-> "none"]

\* PodManager.__init__ (lines 21-31), on a cluster that may hold pods with this
\* app label from an earlier process.
Init ==
    /\ cpu_usage = None
    /\ mem_usage = None
    /\ warned = {}
    /\ log = [k \in Tasks \X LogKinds |-> 0]
    /\ pods \in [PodNames -> Manifests \cup {NoPod}]
    /\ pc = [p \in Procs |-> "idle"]
    /\ call = [p \in Procs |-> NoCall]
    /\ listed = [p \in Procs |-> "none"]
    /\ pre = [p \in Procs |-> NoPre]
    /\ ret = NoRet
    /\ SessionInit
    /\ picked = NoPick

Next ==
    \/ \E p \in Procs, job \in Jobs, task \in Tasks, manifest \in Manifests :
            LaunchStart(p, job, task, manifest) /\ UNCHANGED <<svars, dvars>>
    \/ \E p \in Procs, name \in PodNames, containers \in Manifests :
            DeleteStart(p, name, containers) /\ UNCHANGED <<svars, dvars>>
    \/ \E p \in Procs, outcome \in ListOutcomes : LoadReturn(p, outcome) /\ UNCHANGED <<svars, dvars>>
    \/ \E p \in Procs, outcome \in BackendOutcomes : CreateReturn(p, outcome) /\ UNCHANGED <<svars, dvars>>
    \/ \E p \in Procs, outcome \in BackendOutcomes : DeleteReturn(p, outcome) /\ UNCHANGED <<svars, dvars>>

Spec == Init /\ [][Next]_vars

\* PodManager.__init__ on a cluster that holds no pod with this app label:
\* the cold start, with calls running concurrently.
ColdInit == Init /\ pods = [n \in PodNames |-> NoPod]

ColdSpec == ColdInit /\ [][Next]_vars

\* The calls made one at a time: a call begins only when no other call is
\* suspended (the caller awaits each call before it makes the next).
Quiet == \A q \in Procs : pc[q] = "idle"

SeqNext ==
    \/ \E p \in Procs, job \in Jobs, task \in Tasks, manifest \in Manifests :
            Quiet /\ LaunchStart(p, job, task, manifest) /\ UNCHANGED <<svars, dvars>>
    \/ \E p \in Procs, name \in PodNames, containers \in Manifests :
            Quiet /\ DeleteStart(p, name, containers) /\ UNCHANGED <<svars, dvars>>
    \/ \E p \in Procs, outcome \in ListOutcomes : LoadReturn(p, outcome) /\ UNCHANGED <<svars, dvars>>
    \/ \E p \in Procs, outcome \in BackendOutcomes : CreateReturn(p, outcome) /\ UNCHANGED <<svars, dvars>>
    \/ \E p \in Procs, outcome \in BackendOutcomes : DeleteReturn(p, outcome) /\ UNCHANGED <<svars, dvars>>

SeqSpec == Init /\ [][SeqNext]_vars

\* ----------------------------------------------------- Session operations
\* An async generator with `yields` yield statements, `pos` __anext__ calls
\* into its life.  __anext__ runs it to its next yield and returns that value,
\* or runs it to its end and raises StopAsyncIteration.
anext(g) ==
    IF g.pos < g.yields
    THEN [gen |-> [g EXCEPT !.pos = @ + 1], out |-> "value", value |-> <<g.name, g.pos + 1>>]
    ELSE [gen |-> [g EXCEPT !.pos = g.yields + 1], out |-> "StopAsyncIteration",
          value |-> <<>>]

Registered == { ephemeral_defs[i].name : i \in 1..Len(ephemeral_defs) }

\* Session.ephemeral(manager), lines 56-63: the generator is created, not run.
\* Managers are registered while no open() or close() is running.
Register(name, yields) ==
    /\ spc = SIdle
    /\ name \notin Registered
    /\ ephemeral_defs' = Append(ephemeral_defs, [name |-> name, yields |-> yields, pos |-> 0])
    /\ UNCHANGED <<ephemerals, spc, sresult, acc, warnings, opens>>

\* The accessor `inner` of a registered manager, lines 58-61.
inner(name) ==
    IF name \notin DOMAIN ephemerals
    THEN [raised |-> "Session is not open"]
    ELSE [raised |-> "", value |-> ephemerals[name]]

Access(name) ==
    /\ name \in Registered
    /\ acc' = [name |-> name, got |-> inner(name), during |-> spc.op, opened |-> opens]
    /\ UNCHANGED <<ephemeral_defs, ephemerals, spc, sresult, warnings, opens>>

\* open() returns or raises.
OpenEnds(prior, how) ==
    /\ spc' = SIdle
    /\ sresult' = [op |-> "open", prior |-> prior, outcome |-> how]
    /\ opens' = IF how = "returned" THEN opens + 1 ELSE opens

\* open(), lines 73-74, up to the first __anext__ it awaits.
OpenStart ==
    /\ spc = SIdle
    /\ opens < MaxOpens
    /\ IF ephemeral_defs = <<>>
       THEN OpenEnds(opens, "returned")
       ELSE /\ spc' = [op |-> "open", i |-> 1, prior |-> opens]
            /\ UNCHANGED <<sresult, opens>>
    /\ UNCHANGED <<ephemeral_defs, ephemerals, acc, warnings>>

\* open(): the awaited __anext__ of manager i ends; its value is stored and the
\* loop goes on to the next manager.  StopAsyncIteration leaves open().
OpenStep ==
    /\ spc.op = "open"
    /\ LET i == spc.i
           r == anext(ephemeral_defs[i])
       IN /\ ephemeral_defs' = [ephemeral_defs EXCEPT ![i] = r.gen]
          /\ IF r.out = "value"
             THEN /\ ephemerals' = [n \in DOMAIN ephemerals \cup {r.gen.name} |->
                                       IF n = r.gen.name THEN r.value ELSE ephemerals[n]]
                  /\ IF i = Len(ephemeral_defs)
                     THEN OpenEnds(spc.prior, "returned")
                     ELSE /\ spc' = [spc EXCEPT !.i = i + 1]
                          /\ UNCHANGED <<sresult, opens>>
             ELSE /\ OpenEnds(spc.prior, "StopAsyncIteration")
                  /\ UNCHANGED ephemerals
    /\ UNCHANGED <<acc, warnings>>

\* close() returns or raises.
CloseEnds(prior, how) ==
    /\ spc' = SIdle
    /\ sresult' = [op |-> "close", prior |-> prior, outcome |-> how]

\* close(), lines 84-91, up to the first __anext__ it awaits.
CloseStart ==
    /\ spc = SIdle
    /\ IF ephemeral_defs = <<>>
       THEN CloseEnds(opens, "returned")
       ELSE /\ spc' = [op |-> "close", i |-> 1, prior |-> opens]
            /\ UNCHANGED sresult
    /\ UNCHANGED <<ephemeral_defs, ephemerals, acc, warnings, opens>>

\* close() with the pop of line 91 left out.
CloseStep_NoPop ==
    /\ spc.op = "close"
    /\ LET i == spc.i
           r == anext(ephemeral_defs[i])
           name == r.gen.name
       IN /\ ephemeral_defs' = [ephemeral_defs EXCEPT ![i] = r.gen]
          /\ warnings' = IF r.out = "value" THEN warnings + 1 ELSE warnings
          /\ IF name \in DOMAIN ephemerals
             THEN /\ UNCHANGED ephemerals
                  /\ IF i = Len(ephemeral_defs)
                     THEN CloseEnds(spc.prior, "returned")
                     ELSE /\ spc' = [spc EXCEPT !.i = i + 1]
                          /\ UNCHANGED sresult
             ELSE /\ CloseEnds(spc.prior, "KeyError")
                  /\ UNCHANGED ephemerals
    /\ UNCHANGED <<acc, opens>>

\* close() with a second yield made fatal: the value raises in place of the
\* printed warning of line 90.
CloseStep_RaisesOnSecondYield ==
    /\ spc.op = "close"
    /\ LET i == spc.i
           r == anext(ephemeral_defs[i])
           name == r.gen.name
       IN /\ ephemeral_defs' = [ephemeral_defs EXCEPT ![i] = r.gen]
          /\ UNCHANGED warnings
          /\ IF r.out = "value"
             THEN /\ CloseEnds(spc.prior, "RuntimeError")
                  /\ UNCHANGED ephemerals
             ELSE IF name \in DOMAIN ephemerals
             THEN /\ ephemerals' = [n \in DOMAIN ephemerals \ {name} |-> ephemerals[n]]
                  /\ IF i = Len(ephemeral_defs)
                     THEN CloseEnds(spc.prior, "returned")
                     ELSE /\ spc' = [spc EXCEPT !.i = i + 1]
                          /\ UNCHANGED sresult
             ELSE /\ CloseEnds(spc.prior, "KeyError")
                  /\ UNCHANGED ephemerals
    /\ UNCHANGED <<acc, opens>>

\* close(): the awaited __anext__ of manager i ends: StopAsyncIteration is
\* passed over, a value is a printed warning; then the name is popped from the
\* live table (KeyError when it is not there).
CloseStep ==
    /\ spc.op = "close"
    /\ LET i == spc.i
           r == anext(ephemeral_defs[i])
           name == r.gen.name
       IN /\ ephemeral_defs' = [ephemeral_defs EXCEPT ![i] = r.gen]
          /\ warnings' = IF r.out = "value" THEN warnings + 1 ELSE warnings
          /\ IF name \in DOMAIN ephemerals
             THEN /\ ephemerals' = [n \in DOMAIN ephemerals \ {name} |-> ephemerals[n]]
                  /\ IF i = Len(ephemeral_defs)
                     THEN CloseEnds(spc.prior, "returned")
                     ELSE /\ spc' = [spc EXCEPT !.i = i + 1]
                          /\ UNCHANGED sresult
             ELSE /\ CloseEnds(spc.prior, "KeyError")
                  /\ UNCHANGED ephemerals
    /\ UNCHANGED <<acc, opens>>

\* The PodManager of the Session specification: constructed, never called.
PodManagerIdle ==
    /\ cpu_usage = None
    /\ mem_usage = None
    /\ warned = {}
    /\ log = [k \in Tasks \X LogKinds |-> 0]
    /\ pods = [n \in PodNames |-> NoPod]
    /\ pc = [p \in Procs |-> "idle"]
    /\ call = [p \in Procs |-> NoCall]
    /\ listed = [p \in Procs |-> "none"]
    /\ pre = [p \in Procs |-> NoPre]
    /\ ret = NoRet

SessionInitAll == SessionInit /\ PodManagerIdle /\ picked = NoPick

SessionNext ==
    \/ \E name \in EphemeralNames, yields \in 1..MaxYields :
            Register(name, yields) /\ UNCHANGED <<pvars, dvars>>
    \/ \E name \in EphemeralNames : Access(name) /\ UNCHANGED <<pvars, dvars>>
    \/ OpenStart /\ UNCHANGED <<pvars, dvars>>
    \/ OpenStep /\ UNCHANGED <<pvars, dvars>>
    \/ CloseStart /\ UNCHANGED <<pvars, dvars>>
    \/ CloseStep /\ UNCHANGED <<pvars, dvars>>

SessionSpec == SessionInitAll /\ [][SessionNext]_vars

\* ------------------------------------------------------------ declarative
\* The values a parsed configuration holds: strings, integers and mappings.  A
\* mapping is its items in insertion order, each a pair <<key, value>>.
StrV(x) == [t |-> "str", v |-> x]
IntV(n) == [t |-> "int", n |-> n]
DictV(items) == [t |-> "dict", items |-> items]

Absent == [t |-> "absent"]

ArgKeys == {"endpoint", "hostname", "username", "password", "port", "bogus"}
ArgValues == {StrV("minio"), StrV("22"), IntV(22), DictV(<<>>)}

Keys(items) == { items[i][1] : i \in 1..Len(items) }

\* The items of a mapping of at most n keys: no key twice.
RECURSIVE ItemSeqs(_)
ItemSeqs(n) ==
    IF n = 0 THEN {<<>>}
    ELSE LET shorter == ItemSeqs(n - 1)
         IN shorter \cup
            UNION { { Append(items, <<k, v>>) : k \in ArgKeys \ Keys(items), v \in ArgValues } :
                        items \in { q \in shorter : Len(q) = n - 1 } }

ArgDicts(n) == { DictV(items) : items \in ItemSeqs(n) }

ClsValues == {StrV("S3Connection"), StrV("SSHConnection"), StrV("Bogus")}

\* What a picker is called with: a mapping with or without "cls" and "args",
\* the latter of at most n keys, or something that is no mapping.
Things(n) ==
    {StrV("minio")} \cup
    { [t |-> "dict", cls |-> c, args |-> a] :
        c \in ClsValues \cup {Absent},
        a \in ArgDicts(n) \cup {Absent, StrV("minio")} }

Raise(type, message) == [raised |-> type, message |-> message, constructed |-> FALSE]
Returns(value) == [raised |-> "", value |-> value, constructed |-> FALSE]

Digit == <<"0", "1", "2", "3", "4", "5", "6", "7", "8", "9">>

\* The decimal digits of a natural number, as str(n) writes them.
RECURSIVE Decimal(_)
Decimal(n) == IF n < 10 THEN Digit[n + 1] ELSE Decimal(n \div 10) \o Digit[(n % 10) + 1]

\* The builtin str: every value has a string form.
str(thing) ==
    CASE thing.t = "str" -> Returns(thing)
      [] thing.t = "int" -> Returns(StrV(Decimal(thing.n)))
      [] thing.t = "dict" -> Returns(StrV(IF thing.items = <<>> THEN "{}" ELSE "{...}"))

\* The builtin int: an integer is itself, a string of decimal digits is the
\* number it writes, another string is a ValueError, a mapping a TypeError.
int(thing) ==
    CASE thing.t = "int" -> Returns(thing)
      [] thing.t = "str" ->
            IF \E n \in 0..MaxPort : Decimal(n) = thing.v
            THEN Returns(IntV(CHOOSE n \in 0..MaxPort : Decimal(n) = thing.v))
            ELSE Raise("ValueError", "invalid literal for int()")
      [] thing.t = "dict" -> Raise("TypeError", "int() argument must be a string or a number")

Parse(parser, thing) == IF parser = "int" THEN int(thing) ELSE str(thing)

\* make_typeddict_constructor(name, schema), lines 96-105: the loop over the
\* items from item i on, kwargs being what the items before it gave.
RECURSIVE typeddict_items(_, _, _, _, _)
typeddict_items(name, schema, items, i, kwargs) ==
    IF i > Len(items) THEN Returns(kwargs)
    ELSE LET k == items[i][1]
             v == items[i][2]
         IN IF k \notin DOMAIN schema
            THEN Raise("ValueError", <<"Invalid argument to", name, k>>)
            ELSE LET parsed == Parse(schema[k], v)
                 IN IF parsed.raised # "" THEN parsed
                    ELSE typeddict_items(name, schema, items, i + 1,
                            [x \in DOMAIN kwargs \cup {k} |->
                                IF x = k THEN parsed.value ELSE kwargs[x]])

make_typeddict_constructor(name, schema, thing) ==
    IF thing.t # "dict"
    THEN Raise("ValueError", <<name, "must be followed by a mapping">>)
    ELSE typeddict_items(name, schema, thing.items, 1, <<>>)

\* The call constructor(**kwargs) of a function with these required and
\* optional parameters: a missing required argument is a TypeError.
Call(constructor, kwargs) ==
    IF \E k \in constructor.required : k \notin DOMAIN kwargs
    THEN Raise("TypeError", <<constructor.name, "missing required argument">>)
    ELSE [raised |-> "", constructed |-> TRUE,
          value |-> [by |-> constructor.name,
                     args |-> [k \in DOMAIN constructor.defaults \cup DOMAIN kwargs |->
                                  IF k \in DOMAIN kwargs THEN kwargs[k]
                                  ELSE constructor.defaults[k]]]]

\* make_constructor(name, constructor, schema), lines 84-87.
make_constructor(name, constructor, schema, thing) ==
    LET tdc == make_typeddict_constructor(name, schema, thing)
    IN IF tdc.raised # "" THEN tdc ELSE Call(constructor, tdc.value)

\* _build_s3_connection (line 176) and _build_ssh_connection (lines 233-235).
build_s3_connection ==
    [name |-> "_build_s3_connection",
     required |-> {"endpoint", "username", "password"},
     defaults |-> <<>>]
build_ssh_connection ==
    [name |-> "_build_ssh_connection",
     required |-> {"hostname", "username"},
     defaults |-> [k \in {"password", "key", "port"} |->
                      IF k = "port" THEN IntV(22) ELSE Absent]]

\* The kinds of build_ephemeral_picker (lines 445-493) whose constructor is a
\* function of this module that opens no file: name, constructor and schema.
EphemeralKinds ==
    [k \in {"S3Connection", "SSHConnection"} |->
        IF k = "S3Connection"
        THEN [constructor |-> build_s3_connection,
              schema |-> [x \in {"endpoint", "username", "password"} |-> "str"]]
        ELSE [constructor |-> build_ssh_connection,
              schema |-> [x \in {"hostname", "username", "password", "key", "port"} |->
                             IF x = "port" THEN "int" ELSE "str"]]]

\* make_dispatcher(name, mapping), lines 117-127.
make_dispatcher(name, mapping, thing) ==
    IF thing.t # "dict" THEN Raise("ValueError", <<name, "must be a mapping">>)
    ELSE IF thing.cls = Absent
    THEN Raise("ValueError", <<"You must provide the cls name for", name>>)
    ELSE LET key == thing.cls.v
             value == IF thing.args = Absent THEN DictV(<<>>) ELSE thing.args
         IN IF key \notin DOMAIN mapping
            THEN Raise("ValueError", <<key, "is not a valid member of", name>>)
            ELSE make_constructor(key, mapping[key].constructor, mapping[key].schema, value)

\* The function build_ephemeral_picker returns, called with the thing the
\* configuration holds.
ephemeral_picker ==
    /\ picked.picker = "none"
    /\ picked' = [picker |-> "Ephemeral", thing |-> picked.thing,
                  out |-> make_dispatcher("Ephemeral", EphemeralKinds, picked.thing)]

\* A configuration entry has been read; no picker has been called with it.
PickerInit ==
    /\ SessionInit
    /\ PodManagerIdle
    /\ picked \in { [picker |-> "none", thing |-> thing] : thing \in Things(MaxArgs) }

PickerNext == ephemeral_picker /\ UNCHANGED <<pvars, svars>>

PickerSpec == PickerInit /\ [][PickerNext]_vars

\* ------------------------------------------------------------ properties
\* The usage an unset cache stands for: the value _load_usage stores.
Consumed(u) == IF u = None THEN 0 ELSE Val(u)

LaunchInFlight(p) == call[p].op = "launch" /\ pc[p] # "idle"

\* The latest segment ended a call of this operation, which ran with no other
\* call interleaved.
Returned(op) == ret # NoRet /\ ret.call.op = op /\ ret.pre.clean

RetName == PodName(ret.call.job, ret.call.task)

\* C1: whenever no launch is inside its admission (between its entry and its
\* return), the cached cpu usage is at most cpu_quota and the cached memory
\* usage at most mem_quota.
C1_ConsumedWithinCapacity ==
    (\A p \in Procs : ~LaunchInFlight(p))
        => /\ Consumed(cpu_usage) <= cpu_quota
           /\ Consumed(mem_usage) <= mem_quota

\* C2: a launch that ran with no other call interleaved and returned False
\* left the pods and the consumed usage as they were at its entry; one that
\* returned True created exactly the pod of its manifest and raised the usage
\* by exactly the manifest's summed requests.
C2_LaunchFrame ==
    Returned("launch") =>
        /\ ret.result = "False" =>
              /\ pods = ret.pre.pods
              /\ Consumed(cpu_usage) = Consumed(ret.pre.cpu)
              /\ Consumed(mem_usage) = Consumed(ret.pre.mem)
        /\ ret.result = "True" =>
              /\ ret.pre.pods[RetName] = NoPod
              /\ pods = [ret.pre.pods EXCEPT ![RetName] = ret.call.containers]
              /\ Consumed(cpu_usage) = Consumed(ret.pre.cpu)
                                        + SumRequests(ret.call.containers, "cpu")
              /\ Consumed(mem_usage) = Consumed(ret.pre.mem)
                                        + SumRequests(ret.call.containers, "memory")

\* A launch was admitted; the next call, a launch for the other task, is rejected.
C2_Witness ==
    /\ Returned("launch") /\ ret.result = "False"
    /\ ret.pre.prev.op = "launch"
    /\ ret.pre.prev.task # ret.call.task

\* C3: the cached cpu usage and memory usage are never negative.
C3_UsageNeverNegative ==
    /\ Consumed(cpu_usage) >= 0
    /\ Consumed(mem_usage) >= 0

\* The summed requests of all containers of all existing pods.
RECURSIVE TotalRequests(_, _, _)
TotalRequests(names, backend, resource) ==
    IF names = {} THEN 0
    ELSE LET n == CHOOSE x \in names : TRUE
         IN SumRequests(backend[n], resource)
            + TotalRequests(names \ {n}, backend, resource)

\* The list outcome of call p, still running or just ended.
ListedBy(p) == IF ret # NoRet /\ ret.proc = p THEN ret.listed ELSE listed[p]

\* C4: when a call finds the cache unset and its list of the pods succeeds,
\* the cache afterwards holds the summed cpu and memory requests of the
\* existing pods.
C4_LoadReconciles ==
    [][\A p \in Procs :
          (cpu_usage = None /\ pc[p] \in {"cpu_load", "del_load"} /\ ListedBy(p)' = "ok") =>
              /\ cpu_usage' = Some(TotalRequests(Items, pods, "cpu"))
              /\ mem_usage' = Some(TotalRequests(Items, pods, "memory"))]_vars

\* C5: when the list of the pods fails with reason Forbidden, the load raises
\* nothing, the cached cpu and memory usage are zero, and a launch goes on to
\* its admission decision: it is rejected or it goes on to create the pod.
C5_ForbiddenFallsBack ==
    [][\A p \in Procs :
          (pc[p] \in {"cpu_load", "del_load"} /\ ListedBy(p)' = "Forbidden") =>
              /\ cpu_usage' = Some(0)
              /\ mem_usage' = Some(0)
              /\ call[p].op = "launch" =>
                    \/ pc'[p] = "create"
                    \/ ret' # NoRet /\ ret'.result = "False"
              /\ call[p].op = "delete" => pc'[p] = "delete"]_vars

C5_Witness ==
    \E p \in Procs : /\ listed[p] = "Forbidden" /\ call[p].op = "launch"
                     /\ pc[p] = "create" /\ Items # {}

\* C6: a delete of a pod that was gone when the call began, on a manager whose
\* cache is loaded, run with no other call interleaved and with no failure of
\* the backend other than the pod's absence, returns normally and leaves the
\* consumed usage as it was.
C6_ReapGoneIsNoOp ==
    (/\ Returned("delete")
     /\ ret.pre.pods[RetName] = NoPod
     /\ ret.pre.cpu # None
     /\ ret.result # "ApiException") =>
        /\ ret.result = "None"
        /\ cpu_usage = ret.pre.cpu
        /\ mem_usage = ret.pre.mem

RoundTrip ==
    /\ Returned("delete") /\ ret.result = "None"
    /\ ret.pre.prev.op = "launch"
    /\ ret.pre.prev.job = ret.call.job /\ ret.pre.prev.task = ret.call.task
    /\ ret.pre.prev.containers = ret.call.containers

\* C7: after a launch that returned True and, next, a delete of the pod it
\* created, with no other call running a segment from the launch's entry to
\* the delete's return, the consumed cpu and memory usage are what they were
\* at the launch's entry.
C7_RoundTrip ==
    RoundTrip => /\ Consumed(cpu_usage) = Consumed(ret.pre.prev.cpu0)
                 /\ Consumed(mem_usage) = Consumed(ret.pre.prev.mem0)

C7_Witness ==
    RoundTrip /\ ret.pre.prev.cpu0 # None /\ Val(ret.pre.prev.cpu0) # 0

\* The request does not fit on top of the usage, in cpu or in memory.
Exceeds(containers, cpu, mem) ==
    \/ SumRequests(containers, "cpu") + Val(cpu) > cpu_quota
    \/ SumRequests(containers, "memory") + Val(mem) > mem_quota

\* Launch p returned False in this segment.
Rejects(p) == ret' # NoRet /\ ret'.proc = p /\ ret'.call.op = "launch" /\ ret'.result = "False"

\* Launch p passed both checks in this segment and calls create_namespaced_pod.
Admits(p) == pc[p] # "create" /\ pc'[p] = "create"

\* C8: a launch on a manager whose cache is loaded (as after a launch that
\* succeeded) decides at once, and a launch that decides returns False
\* exactly when its request on top of the usage it reads exceeds the cpu or
\* the memory quota, and goes on to create the pod otherwise.
C8_AdmissionMonotonic ==
    [][\A p \in Procs :
          /\ (pc[p] = "idle" /\ cpu_usage # None
                /\ (call'[p].op = "launch" \/ (ret' # NoRet /\ ret'.proc = p)))
                => (Rejects(p) \/ Admits(p))
          /\ Rejects(p) => Exceeds(ret'.call.containers, cpu_usage', mem_usage')
          /\ Admits(p) => ~Exceeds(call'[p].containers, cpu_usage', mem_usage')]_vars

\* A launch was admitted; the next call, a launch of the same request, is rejected.
C8_Witness ==
    /\ Returned("launch") /\ ret.result = "False"
    /\ ret.pre.prev.op = "launch"
    /\ ret.pre.prev.containers = ret.call.containers

\* C9: an open() that begins after an earlier open() has returned fails with
\* SessionAlreadyOpen.
C9_SecondOpenFails ==
    (sresult.op = "open" /\ sresult.prior >= 1) => sresult.outcome = "SessionAlreadyOpen"

\* C10: an accessor called before any open() has returned raises the
\* session-not-open error and returns no resource.
C10_AccessBeforeOpen ==
    (acc # NoAccess /\ acc.opened = 0) => acc.got.raised = "Session is not open"

\* C11: from the return of a close() that began after an open() had returned
\* until the next open() or close() begins, the table of live ephemerals is
\* empty and the accessor of every registered manager raises the
\* session-not-open error.
C11_CloseEmptiesTable ==
    (/\ spc = SIdle
     /\ sresult.op = "close" /\ sresult.outcome = "returned" /\ sresult.prior >= 1) =>
        /\ DOMAIN ephemerals = {}
        /\ \A n \in Registered : inner(n).raised = "Session is not open"

\* Two managers were registered, an open() returned, a close() returned and an
\* accessor called outside open() and close() failed.
C11_Witness ==
    /\ spc = SIdle
    /\ sresult.op = "close" /\ sresult.outcome = "returned" /\ sresult.prior >= 1
    /\ Len(ephemeral_defs) = 2
    /\ \A k \in 1..2 : ephemeral_defs[k].pos >= 2
    /\ DOMAIN ephemerals = {}
    /\ acc # NoAccess /\ acc.during = "idle" /\ acc.opened >= 1
    /\ acc.got.raised = "Session is not open"

\* The generator has run to its end.
Terminated(g) == g.pos = g.yields + 1

\* This segment is the one in which a close() returns normally: the last
\* manager has been driven, or there is none.
CloseReturns ==
    /\ spc.op = "close" \/ sresult' # sresult
    /\ spc' = SIdle
    /\ sresult'.op = "close" /\ sresult'.outcome = "returned"

SecondYield ==
    /\ spc.op = "close"
    /\ ephemeral_defs' # ephemeral_defs
    /\ anext(ephemeral_defs[spc.i]).out = "value"
    /\ ephemeral_defs[spc.i].name \in DOMAIN ephemerals

FailingCheck(containers) ==
    IF SumRequests(containers, "cpu") + Consumed(cpu_usage) > cpu_quota
    THEN "cpu limit"
    ELSE "memory limit"

\* C14: no admission failure is logged more than once for the same task and
\* limit, and a launch that has just been rejected finds exactly one log
\* record of its task and the limit it failed, whether or not the task was
\* rejected before for the other limit.
C14_LoggedOncePerCondition ==
    /\ \A k \in Tasks \X LogKinds : log[k] <= 1
    /\ (ret # NoRet /\ ret.call.op = "launch" /\ ret.result = "False") =>
          log[<<ret.call.task, FailingCheck(ret.call.containers)>>] = 1

\* C15: from a cold start, whenever no call is in flight and the call that
\* ended last was not failed by the backend, the cached cpu and memory usage
\* equal the summed requests of the pods that exist: the pods this manager
\* created and has not deleted.
C15_QuiescentConsistency ==
    (Quiet /\ (ret # NoRet => ret.listed # "error" /\ ret.result # "ApiException")) =>
        /\ Consumed(cpu_usage) = TotalRequests(Items, pods, "cpu")
        /\ Consumed(mem_usage) = TotalRequests(Items, pods, "memory")

\* The thing names a kind of the picker and gives it a mapping of arguments.
WellShaped(thing) ==
    /\ thing.t = "dict" /\ thing.cls # Absent
    /\ thing.cls.v \in DOMAIN EphemeralKinds
    /\ thing.args # Absent /\ thing.args.t = "dict"

\* A mapping where a string or a number is expected, or a string that writes
\* no number where a number is expected.
Malformed(parser, value) ==
    \/ value.t = "dict"
    \/ parser = "int" /\ value.t = "str" /\ ~(\E n \in 0..MaxPort : Decimal(n) = value.v)

\* The thing names an unknown kind, or its arguments carry a key that is not
\* in the schema of its kind, carry a malformed value, or lack an argument the
\* constructor of its kind requires.
Invalid(thing) ==
    \/ thing.t = "dict" /\ thing.cls # Absent /\ thing.cls.v \notin DOMAIN EphemeralKinds
    \/ /\ WellShaped(thing)
       /\ LET kind == EphemeralKinds[thing.cls.v]
              items == thing.args.items
          IN \/ \E i \in 1..Len(items) : items[i][1] \notin DOMAIN kind.schema
             \/ \E i \in 1..Len(items) :
                    /\ items[i][1] \in DOMAIN kind.schema
                    /\ Malformed(kind.schema[items[i][1]], items[i][2])
             \/ \E k \in kind.constructor.required : k \notin Keys(items)

\* C13: a picker called with an invalid thing raises an error and constructs
\* nothing.
C13_InvalidSpecRejected ==
    (picked.picker # "none" /\ Invalid(picked.thing)) =>
        /\ picked.out.raised # ""
        /\ ~picked.out.constructed

====
